---- MODULE Spec2Model ----
(***************************************************************************)
(* alternate-assets (src/main.go): one run of the command on a path.       *)
(*                                                                         *)
(* State: the file system reached from the argument (file contents, the    *)
(* directories that cannot be read), the two flags, the call stack of      *)
(* processDirectory, the program position and the locals of processFile,   *)
(* the two output streams and the exit code.                               *)
(*                                                                         *)
(* A file's bytes are abstracted to a record                               *)
(*   [enc, codec, pix, param, size, px]                                    *)
(* enc   : "go" when the bytes are what Go's encoder emits for             *)
(*         (codec, pix, param), "other" when another encoder wrote them    *)
(* codec : the format the bytes really have (image.Decode sniffs content,  *)
(*         not the file name), "junk" for undecodable bytes, "empty" for a *)
(*         truncated file, "partial" for an interrupted write              *)
(* pix   : the 8-bit channel value of the (uniform) decoded image          *)
(* param : the encoder parameter (JPEG quality, PNG compression level)     *)
(* size  : the length in bytes, px : the pixel count                       *)
(* An encoder is a deterministic function, so two files encoded by Go from *)
(* the same (codec, pix, param) are the same bytes.                        *)
(***************************************************************************)
EXTENDS Integers, Sequences, FiniteSets, TLC

\* ------------------------------------------------------------------ bounds
\* Largest value given to the -r flag.
MaxRecursive == 2
\* Number of directory levels below the start directory in the tree.
TreeDepth == 2
\* I/O operations that fail on the file given as a single-file argument.
MaxFaults == 1
\* Entries of a walked tree that are not a readable directory or a fresh,
\* readable image: a corrupt file, a file this program already rewrote, a
\* file with one failing I/O operation, an unreadable directory.
MaxSpecial == 1

\* --------------------------------------------------------- program constants
\* png.CompressionLevel values (image/png), as used at main.go:90-108.
DefaultCompression == 0
NoCompression == -1
BestSpeed == -2
BestCompression == -3
\* "return 75 // Return default quality on error", also processFile's default.
DefaultJpegQuality == 75
\* imaging.AdjustBrightness(src, 0.1): the percentage, in tenths of a percent.
BrightnessTenths == 1

Nil == "nil"
ErrUnsupported == "unsupported file extension"
ErrOrigSum == "failed to calculate original checksum"
ErrDecode == "failed to decode image"
ErrCreate == "failed to create output file"
ErrSave == "failed to save image"
ErrNewSum == "failed to calculate new checksum"
ErrReadDir == "failed to read directory"
ErrStat == "stat"
Check == "check"
Cross == "cross"

\* ------------------------------------------------------------ pure helpers
\* var supportedExtensions = map[string]bool{...}
supportedExtensions == {".jpg", ".jpeg", ".png", ".gif", ".webp"}

\* A file name is <<base, extension>>; filepath.Ext is the second part.
Ext(name) == name[2]

\* strings.ToLower on the extensions that occur.
ToLower(e) ==
  CASE e = ".JPG" -> ".jpg"
    [] e = ".JPEG" -> ".jpeg"
    [] e = ".PNG" -> ".png"
    [] e = ".TXT" -> ".txt"
    [] OTHER -> e

IsSupportedMutant(ext) == ext \in (supportedExtensions \cup {".txt"})
\* supportedExtensions[ext]
IsSupported(ext) == ext \in supportedExtensions

IsJpegExt(ext) == ext = ".jpg" \/ ext = ".jpeg"

\* The format an encoder writes for an extension (switch ext, main.go:211-232).
CodecOfExt(ext) ==
  CASE IsJpegExt(ext) -> "jpeg"
    [] ext = ".png" -> "png"
    [] ext = ".gif" -> "gif"
    [] OTHER -> "webp"

\* Formats image.Decode has a decoder for: image/jpeg and image/png are
\* imported by main.go, GIF comes with the imaging package; no WebP decoder
\* is imported anywhere.
Decodable(codec) == codec \in {"jpeg", "png", "gif"}

\* calculateFileChecksum's digest: MD5 over the whole content, taken as
\* injective on contents.
Digest(content) == <<"md5", content>>

\* imaging.AdjustBrightness(img, 0.1): every channel value v becomes
\* clamp(v + 255*0.1/100), and clamp rounds to nearest and saturates at 255.
\* Computed in thousandths.
ShiftMilli == (255 * BrightnessTenths * 1000) \div 1000
Clamp(m) == IF m \div 1000 > 255 THEN 255 ELSE IF m \div 1000 > 0 THEN m \div 1000 ELSE 0
AdjustBrightness(v) == Clamp(v * 1000 + ShiftMilli + 500)

EstimateFromBppMutant(size, pixelCount) ==
  IF 2 * size < pixelCount THEN 60
  ELSE IF size < pixelCount THEN 80
  ELSE IF 4 * size < 3 * pixelCount THEN 70
  ELSE IF 2 * size < 3 * pixelCount THEN 90
  ELSE 95
\* The switch of estimateJpegQuality on bytesPerPixel = size / pixelCount,
\* with the comparisons cross-multiplied (0.5, 0.75, 1.0, 1.5).
EstimateFromBpp(size, pixelCount) ==
  IF 2 * size < pixelCount THEN 60
  ELSE IF 4 * size < 3 * pixelCount THEN 70
  ELSE IF size < pixelCount THEN 80
  ELSE IF 2 * size < 3 * pixelCount THEN 90
  ELSE 95

\* estimateJpegQuality(filePath) on a file with this content, given whether
\* os.Open and file.Stat succeed.
estimateJpegQuality(content, openOk, statOk) ==
  IF ~openOk THEN DefaultJpegQuality
  ELSE IF ~statOk THEN DefaultJpegQuality
  ELSE IF ~Decodable(content.codec) \/ content.codec # "jpeg" THEN DefaultJpegQuality
  ELSE EstimateFromBpp(content.size, content.px)

\* estimatePngCompressionLevel(filePath).
estimatePngCompressionLevel(content, openOk, statOk) ==
  IF ~openOk THEN DefaultCompression
  ELSE IF ~statOk THEN DefaultCompression
  ELSE IF content.size < 10 * 1024 THEN NoCompression
  ELSE IF content.size < 100 * 1024 THEN BestSpeed
  ELSE IF content.size < 1024 * 1024 THEN DefaultCompression
  ELSE BestCompression

AdjustQualityMutant(jpegQuality) ==
  IF jpegQuality >= 90 THEN jpegQuality - 1 ELSE jpegQuality + 1
\* adjustedQuality, main.go:215-220.
AdjustQuality(jpegQuality) ==
  IF jpegQuality > 90 THEN jpegQuality - 1 ELSE jpegQuality + 1

\* encoder := png.Encoder{CompressionLevel: compressionLevel}, main.go:227.
PngEncoderLevel(compressionLevel) == compressionLevel

ChangeSymbolMutant(originalChecksum, newChecksum) ==
  IF originalChecksum = newChecksum THEN Check ELSE Cross
\* changeSymbol, main.go:251-254.
ChangeSymbol(originalChecksum, newChecksum) ==
  IF originalChecksum # newChecksum THEN Check ELSE Cross

ShouldRecurseMutant(isDir, currentDepth, maxDepth) == isDir /\ currentDepth + 1 < maxDepth
\* entry.IsDir() && currentDepth < maxDepth, main.go:275.
ShouldRecurse(isDir, currentDepth, maxDepth) == isDir /\ currentDepth < maxDepth

\* if currentDepth > maxDepth { return nil }, main.go:263.
TooDeep(currentDepth, maxDepth) == currentDepth > maxDepth

NextEntryStop(idx, err, n) == IF err # Nil THEN n + 1 ELSE idx + 1
NextEntryRetry(idx, err, n) == IF err # Nil THEN idx ELSE idx + 1
\* The index of the entry the loop of processDirectory takes after the entry
\* at idx of n, whose processing returned err: the error is only logged and
\* the range loop goes on (main.go:272-289).
NextEntry(idx, err, n) == idx + 1

\* ------------------------------------------------------------ file system
Pixels == {128, 255}
PixelCounts == {1000}
JpegSizes == {499, 500, 749, 750, 999, 1000, 1499, 1500}
PngSizes == {10 * 1024 - 1, 10 * 1024, 100 * 1024 - 1, 100 * 1024,
             1024 * 1024 - 1, 1024 * 1024}
Qualities == {61, 76, 94}
Levels == {DefaultCompression, NoCompression, BestSpeed, BestCompression}

Content(enc, codec, pix, param, size, px) ==
  [enc |-> enc, codec |-> codec, pix |-> pix, param |-> param, size |-> size, px |-> px]

Junk == Content("other", "junk", 0, 0, 1000, 0)
\* What os.Create leaves: a file of length 0.
Empty == Content("other", "empty", 0, 0, 0, 0)
\* What an encoder that fails part-way may leave.
Partial == Content("other", "partial", 0, 0, 1, 0)

JpegContents ==
  {Content(e, "jpeg", p, q, s, n) :
     e \in {"go", "other"}, p \in Pixels, q \in Qualities, s \in JpegSizes, n \in PixelCounts}
PngContents ==
  {Content(e, "png", p, l, s, n) :
     e \in {"go", "other"}, p \in Pixels, l \in Levels, s \in PngSizes, n \in PixelCounts}
OtherContents ==
  {Content(e, c, p, 0, 1000, n) :
     e \in {"go", "other"}, c \in {"gif", "webp"}, p \in Pixels, n \in PixelCounts}
\* What a file given on the command line may hold.
AllContents == JpegContents \cup PngContents \cup OtherContents \cup {Junk}

\* Names a single file argument may have.
SingleNames == {<<"a", ".jpg">>, <<"a", ".JPG">>, <<"a", ".jpeg">>, <<"a", ".png">>,
                <<"a", ".gif">>, <<"a", ".webp">>, <<"c", ".txt">>, <<"c", "">>}

\* A fresh image of the format the name announces, written by another tool.
Fresh(name) ==
  LET c == CodecOfExt(ToLower(Ext(name)))
  IN  IF ~IsSupported(ToLower(Ext(name))) THEN Junk
      ELSE Content("other", c, 128, 0,
                   IF c = "jpeg" THEN 749 ELSE IF c = "png" THEN 10 * 1024 - 1 ELSE 1000,
                   1000)
\* The file as this program's encoders left it on an earlier run.
Stable(name) ==
  LET c == CodecOfExt(ToLower(Ext(name)))
  IN  Content("go", c, 128,
              IF c = "jpeg" THEN 61 ELSE IF c = "png" THEN NoCompression ELSE 0,
              IF c = "jpeg" THEN 499 ELSE IF c = "png" THEN 10 * 1024 - 1 ELSE 1000, 1000)


\* The walked tree: one directory per level, named like an image, each under
\* the one above. os.ReadDir returns the entries sorted by file name.
DirName == <<"d", ".png">>
DirAt(k) == [i \in 1..k |-> DirName]
Levels0 == 0..TreeDepth
AllDirs == {DirAt(k) : k \in Levels0}
FileEntry(name) == [name |-> name, isDir |-> FALSE]
DirEntry(name) == [name |-> name, isDir |-> TRUE]
Entries(dir) ==
  LET k == Len(dir)
      sub == IF k < TreeDepth THEN <<DirEntry(DirName)>> ELSE <<>>
  IN  IF k = 0
      THEN <<FileEntry(<<"a", ".jpg">>), FileEntry(<<"b", ".png">>),
             FileEntry(<<"c", ".txt">>)>> \o sub \o <<FileEntry(<<"z", ".gif">>)>>
      ELSE sub \o <<FileEntry(IF k % 2 = 1 THEN <<"e", ".JPG">> ELSE <<"e", ".png">>)>>
\* filepath.Join(path, entry.Name())
Join(path, name) == Append(path, name)
TreeFiles ==
  UNION {{Join(d, Entries(d)[i].name) : i \in {j \in 1..Len(Entries(d)) : ~Entries(d)[j].isDir}}
         : d \in AllDirs}
\* The files of the tree a walk would hand to processFile.
EligibleFiles == {p \in TreeFiles : IsSupported(ToLower(Ext(p[Len(p)])))}

\* The I/O operations of processFile that can fail on a readable image.
FaultKinds == {"sum1", "est_open", "est_stat", "open", "create", "save", "sum2"}

RECURSIVE SmallSubsets(_, _)
\* The subsets of S with at most k elements.
SmallSubsets(S, k) ==
  IF k = 0 THEN {{}}
  ELSE LET prev == SmallSubsets(S, k - 1)
       IN  prev \cup {A \cup {x} : A \in prev, x \in S}

\* What can be special about an entry of the walked tree.
FileOddities == {<<p, k>> : p \in EligibleFiles, k \in FaultKinds \cup {"junk", "stable"}}
DirOddities == {<<d, "unreadable">> : d \in AllDirs}
Oddities == FileOddities \cup DirOddities \cup {<<<<>>, "nostat">>}
\* At most MaxSpecial oddities, at most one per entry.
OdditySets ==
  {A \in SmallSubsets(Oddities, MaxSpecial) : \A x, y \in A : x[1] = y[1] => x = y}

\* --------------------------------------------------------------- the state
VARIABLES
  arg,             \* args[0], a path: a sequence of names
  argIsDir,        \* stat.IsDir() of it
  recursiveDepth,  \* the -r flag
  verbose,         \* the -v flag
  fs,              \* path of a file -> its content
  fs0,             \* fs as the run found it
  faults,          \* path of a file -> the I/O operations that fail on it
  unreadable,      \* the directories os.ReadDir fails on
  statFails,       \* os.Stat(path) fails in main
  stack,           \* activations of processDirectory: [path, depth, maxDepth, idx]
  pc,              \* the program position
  ret,             \* the error the returning function returns
  pf,              \* the activation of processFile: its path, caller and locals
  stdout,          \* lines printed with fmt.Printf
  stderr,          \* lines printed with fmt.Fprintf(os.Stderr, ...)
  exitCode,        \* -1 while the run lasts
  calls,           \* path of a file -> number of calls of processFile on it
  result,          \* path of a file -> what the call on it returned
  readDirs         \* the directories os.ReadDir was called on, in order

vars == <<arg, argIsDir, recursiveDepth, verbose, fs, fs0, faults, unreadable, statFails,
          stack, pc, ret, pf, stdout, stderr, exitCode, calls, result, readDirs>>

env == <<arg, argIsDir, recursiveDepth, verbose, fs0, faults, unreadable, statFails>>

NoCall == "none"
\* processFile before it is called: jpegQuality := 75, compressionLevel :=
\* png.DefaultCompression (main.go:183-184), nothing else set.
IdlePf ==
  [path |-> <<>>, caller |-> "none", ext |-> "", originalChecksum |-> <<>>,
   jpegQuality |-> DefaultJpegQuality, compressionLevel |-> DefaultCompression,
   estimated |-> "no", src |-> -1, processed |-> -1, adjustedQuality |-> -1,
   encoderLevel |-> 1, encoded |-> FALSE, newChecksum |-> <<>>]

InitCommon ==
  /\ fs0 = fs
  /\ stack = <<>>
  /\ pc = "main"
  /\ ret = Nil
  /\ pf = IdlePf
  /\ stdout = <<>>
  /\ stderr = <<>>
  /\ exitCode = -1
  /\ calls = [p \in DOMAIN fs |-> 0]
  /\ result = [p \in DOMAIN fs |-> NoCall]
  /\ readDirs = <<>>

\* What a file named on the command line may hold.
SingleContents(name) ==
  IF IsSupported(ToLower(Ext(name))) THEN AllContents
  ELSE {Junk, Content("other", "png", 128, 0, 10 * 1024, 1000)}

\* The command is given one file.
InitFile ==
  /\ \E name \in SingleNames :
       /\ arg = <<name>>
       /\ \E c \in SingleContents(name) : fs = [p \in {<<name>>} |-> c]
       /\ \E F \in SmallSubsets(FaultKinds \cup {"nostat"}, MaxFaults) :
            /\ faults = [p \in {<<name>>} |-> F \ {"nostat"}]
            /\ statFails = ("nostat" \in F)
  /\ argIsDir = FALSE
  /\ recursiveDepth = 0
  /\ verbose \in BOOLEAN
  /\ unreadable = {}
  /\ InitCommon

\* The command is given the top directory of the tree.
InitDir ==
  /\ arg = <<>>
  /\ argIsDir = TRUE
  /\ recursiveDepth \in -1..MaxRecursive
  /\ verbose \in BOOLEAN
  /\ \E A \in OdditySets :
       /\ fs = [p \in TreeFiles |->
                  IF <<p, "junk">> \in A THEN Junk
                  ELSE IF <<p, "stable">> \in A THEN Stable(p[Len(p)])
                  ELSE Fresh(p[Len(p)])]
       /\ faults = [p \in TreeFiles |-> {k \in FaultKinds : <<p, k>> \in A}]
       /\ unreadable = {d \in AllDirs : <<d, "unreadable">> \in A}
       /\ statFails = (<<<<>>, "nostat">> \in A)
  /\ InitCommon

Init == InitFile \/ InitDir


\* ------------------------------------------------------------------- main
\* The call processFile(path) from `caller`.
CallProcessFile(path, caller) ==
  /\ pf' = [IdlePf EXCEPT !.path = path, !.caller = caller]
  /\ calls' = [calls EXCEPT ![path] = @ + 1]
  /\ pc' = "pf_ext"

\* main.go:125-129: os.Stat(path) fails.
MainStatFail ==
  /\ pc = "main"
  /\ statFails
  /\ stderr' = Append(stderr, <<"Error", ErrStat>>)
  /\ exitCode' = 1
  /\ pc' = "exit"
  /\ UNCHANGED <<env, fs, stack, ret, pf, stdout, calls, result, readDirs>>

\* main.go:131-132: err = processDirectory(path, 0, recursiveDepth).
MainDir ==
  /\ pc = "main"
  /\ ~statFails
  /\ argIsDir
  /\ stack' = <<[path |-> arg, depth |-> 0, maxDepth |-> recursiveDepth, idx |-> 0]>>
  /\ pc' = "pd_enter"
  /\ UNCHANGED <<env, fs, ret, pf, stdout, stderr, exitCode, calls, result, readDirs>>

\* main.go:133-134: err = processFile(path).
MainFile ==
  /\ pc = "main"
  /\ ~statFails
  /\ ~argIsDir
  /\ CallProcessFile(arg, "main")
  /\ UNCHANGED <<env, fs, stack, ret, stdout, stderr, exitCode, result, readDirs>>

\* main.go:137-140, and the return of Run with exit code 0.
MainReturn ==
  /\ pc = "main_ret"
  /\ IF ret # Nil
     THEN /\ stderr' = Append(stderr, <<"Error", ret>>)
          /\ exitCode' = 1
     ELSE /\ stderr' = stderr
          /\ exitCode' = 0
  /\ pc' = "exit"
  /\ UNCHANGED <<env, fs, stack, ret, pf, stdout, calls, result, readDirs>>

\* ------------------------------------------------------- processDirectory
Top == stack[Len(stack)]
SetTop(f) == [stack EXCEPT ![Len(stack)] = f]
CurEntry == Entries(Top.path)[Top.idx]

\* main.go:263-265: if currentDepth > maxDepth { return nil }.
PdTooDeep ==
  /\ pc = "pd_enter"
  /\ TooDeep(Top.depth, Top.maxDepth)
  /\ ret' = Nil
  /\ pc' = "pd_ret"
  /\ UNCHANGED <<env, fs, stack, pf, stdout, stderr, exitCode, calls, result, readDirs>>

\* main.go:267-270: os.ReadDir fails.
PdReadDirFail ==
  /\ pc = "pd_enter"
  /\ ~(TooDeep(Top.depth, Top.maxDepth))
  /\ Top.path \in unreadable
  /\ readDirs' = Append(readDirs, Top.path)
  /\ ret' = ErrReadDir
  /\ pc' = "pd_ret"
  /\ UNCHANGED <<env, fs, stack, pf, stdout, stderr, exitCode, calls, result>>

\* main.go:267, 272: the entries are read and the loop starts.
PdReadDir ==
  /\ pc = "pd_enter"
  /\ ~(TooDeep(Top.depth, Top.maxDepth))
  /\ Top.path \notin unreadable
  /\ readDirs' = Append(readDirs, Top.path)
  /\ stack' = SetTop([Top EXCEPT !.idx = 1])
  /\ pc' = "pd_loop"
  /\ UNCHANGED <<env, fs, ret, pf, stdout, stderr, exitCode, calls, result>>

\* main.go:275-276: the entry is a directory and the depth allows the descent.
PdRecurse ==
  /\ pc = "pd_loop"
  /\ Top.idx <= Len(Entries(Top.path))
  /\ ShouldRecurse(CurEntry.isDir, Top.depth, Top.maxDepth)
  /\ stack' = Append(stack, [path |-> Join(Top.path, CurEntry.name),
                             depth |-> Top.depth + 1, maxDepth |-> Top.maxDepth, idx |-> 0])
  /\ pc' = "pd_enter"
  /\ UNCHANGED <<env, fs, ret, pf, stdout, stderr, exitCode, calls, result, readDirs>>

\* main.go:280-283: the entry is a file with a supported extension.
PdFile ==
  /\ pc = "pd_loop"
  /\ Top.idx <= Len(Entries(Top.path))
  /\ ~ShouldRecurse(CurEntry.isDir, Top.depth, Top.maxDepth)
  /\ ~CurEntry.isDir
  /\ IsSupported(ToLower(Ext(CurEntry.name)))
  /\ CallProcessFile(Join(Top.path, CurEntry.name), "dir")
  /\ UNCHANGED <<env, fs, stack, ret, stdout, stderr, exitCode, result, readDirs>>

\* main.go:275, 280, 282: a directory at the maximum depth, or a file with
\* another extension: nothing is done with the entry.
PdSkip ==
  /\ pc = "pd_loop"
  /\ Top.idx <= Len(Entries(Top.path))
  /\ ~ShouldRecurse(CurEntry.isDir, Top.depth, Top.maxDepth)
  /\ CurEntry.isDir \/ ~IsSupported(ToLower(Ext(CurEntry.name)))
  /\ stack' = SetTop([Top EXCEPT !.idx = @ + 1])
  /\ UNCHANGED <<env, fs, pc, ret, pf, stdout, stderr, exitCode, calls, result, readDirs>>

\* main.go:291: the loop is over, return nil.
PdDone ==
  /\ pc = "pd_loop"
  /\ Top.idx > Len(Entries(Top.path))
  /\ ret' = Nil
  /\ pc' = "pd_ret"
  /\ UNCHANGED <<env, fs, stack, pf, stdout, stderr, exitCode, calls, result, readDirs>>

\* The call made by main returns to main.
PdReturnToMain ==
  /\ pc = "pd_ret"
  /\ Len(stack) = 1
  /\ stack' = <<>>
  /\ pc' = "main_ret"
  /\ UNCHANGED <<env, fs, ret, pf, stdout, stderr, exitCode, calls, result, readDirs>>

\* main.go:276-279: the recursive call returns; its error is logged and the
\* loop goes on with the next entry.
PdReturnToParent ==
  /\ pc = "pd_ret"
  /\ Len(stack) > 1
  /\ LET parent == stack[Len(stack) - 1]
     IN  stack' = Append(SubSeq(stack, 1, Len(stack) - 2),
                         [parent EXCEPT !.idx = NextEntry(@, ret, Len(Entries(parent.path)))])
  /\ stderr' = IF ret # Nil
               THEN Append(stderr, <<"Error processing directory", Top.path, ret>>)
               ELSE stderr
  /\ ret' = Nil
  /\ pc' = "pd_loop"
  /\ UNCHANGED <<env, fs, pf, stdout, exitCode, calls, result, readDirs>>


\* ------------------------------------------------------------ processFile
\* What an encoder of Go writes at the path for the image `processed` with
\* parameter `param`, `old` being what the file held when it was decoded. The
\* same (codec, pixels, parameter) give the same bytes, hence the same length;
\* the length of any other output is read by nothing in the run and is left 0.
Encoded(old, ext, processed, param) ==
  LET codec == CodecOfExt(ext)
      same == /\ old.enc = "go"
              /\ old.codec = codec
              /\ old.pix = processed
              /\ old.param = param
  IN  Content("go", codec, processed, param, IF same THEN old.size ELSE 0, old.px)

\* return fmt.Errorf(...): processFile leaves with an error.
PfFail(err) ==
  /\ ret' = err
  /\ pc' = "pf_ret"

\* main.go:171-175: the extension check.
PfExt ==
  /\ pc = "pf_ext"
  /\ LET ext == ToLower(Ext(pf.path[Len(pf.path)]))
     IN  /\ pf' = [pf EXCEPT !.ext = ext]
         /\ IF ~IsSupported(ext)
            THEN PfFail(ErrUnsupported)
            ELSE /\ pc' = "pf_sum1"
                 /\ ret' = ret
  /\ UNCHANGED <<env, fs, stack, stdout, stderr, exitCode, calls, result, readDirs>>

\* main.go:177-180: originalChecksum, err := calculateFileChecksum(path).
PfOrigSum ==
  /\ pc = "pf_sum1"
  /\ IF "sum1" \in faults[pf.path]
     THEN /\ PfFail(ErrOrigSum)
          /\ pf' = pf
     ELSE /\ pf' = [pf EXCEPT !.originalChecksum = Digest(fs[pf.path])]
          /\ pc' = "pf_est"
          /\ ret' = ret
  /\ UNCHANGED <<env, fs, stack, stdout, stderr, exitCode, calls, result, readDirs>>

\* main.go:186-188: jpegQuality = estimateJpegQuality(path).
PfEstimateJpeg ==
  /\ pc = "pf_est"
  /\ IsJpegExt(pf.ext)
  /\ pf' = [pf EXCEPT !.jpegQuality =
                        estimateJpegQuality(fs[pf.path], "est_open" \notin faults[pf.path],
                                            "est_stat" \notin faults[pf.path]),
                      !.estimated = "jpeg"]
  /\ pc' = "pf_open"
  /\ UNCHANGED <<env, fs, stack, ret, stdout, stderr, exitCode, calls, result, readDirs>>

\* main.go:189-191: compressionLevel = estimatePngCompressionLevel(path).
PfEstimatePng ==
  /\ pc = "pf_est"
  /\ ~IsJpegExt(pf.ext)
  /\ pf.ext = ".png"
  /\ pf' = [pf EXCEPT !.compressionLevel =
                        estimatePngCompressionLevel(fs[pf.path],
                                                    "est_open" \notin faults[pf.path],
                                                    "est_stat" \notin faults[pf.path]),
                      !.estimated = "png"]
  /\ pc' = "pf_open"
  /\ UNCHANGED <<env, fs, stack, ret, stdout, stderr, exitCode, calls, result, readDirs>>

\* main.go:186-192: neither branch, the defaults stay.
PfEstimateNone ==
  /\ pc = "pf_est"
  /\ ~IsJpegExt(pf.ext)
  /\ pf.ext # ".png"
  /\ pc' = "pf_open"
  /\ UNCHANGED <<env, fs, stack, ret, pf, stdout, stderr, exitCode, calls, result, readDirs>>

\* PfOpen with os.Create(path) issued before the decode error is looked at:
\* a file that does not decode is left truncated.
PfOpenCreateFirst ==
  /\ pc = "pf_open"
  /\ IF "open" \in faults[pf.path] \/ ~Decodable(fs[pf.path].codec)
     THEN /\ PfFail(ErrDecode)
          /\ pf' = pf
          /\ fs' = [fs EXCEPT ![pf.path] = Empty]
     ELSE /\ pf' = [pf EXCEPT !.src = fs[pf.path].pix,
                              !.processed = AdjustBrightness(fs[pf.path].pix)]
          /\ pc' = "pf_create"
          /\ ret' = ret
          /\ fs' = fs
  /\ UNCHANGED <<env, stack, stdout, stderr, exitCode, calls, result, readDirs>>

\* main.go:195-201: src, err := imaging.Open(path), then
\* processed := imaging.AdjustBrightness(src, 0.1).
PfOpen ==
  /\ pc = "pf_open"
  /\ IF "open" \in faults[pf.path] \/ ~Decodable(fs[pf.path].codec)
     THEN /\ PfFail(ErrDecode)
          /\ pf' = pf
     ELSE /\ pf' = [pf EXCEPT !.src = fs[pf.path].pix,
                              !.processed = AdjustBrightness(fs[pf.path].pix)]
          /\ pc' = "pf_create"
          /\ ret' = ret
  /\ UNCHANGED <<env, fs, stack, stdout, stderr, exitCode, calls, result, readDirs>>

\* main.go:204-208: outputFile, err := os.Create(path) truncates the file.
PfCreate ==
  /\ pc = "pf_create"
  /\ IF "create" \in faults[pf.path]
     THEN /\ PfFail(ErrCreate)
          /\ fs' = fs
     ELSE /\ fs' = [fs EXCEPT ![pf.path] = Empty]
          /\ pc' = "pf_encode"
          /\ ret' = ret
  /\ UNCHANGED <<env, stack, pf, stdout, stderr, exitCode, calls, result, readDirs>>

\* The encoder writes `content`, or fails and leaves a file of length 0 or
\* part of the output; main.go:234-236.
Save(content) ==
  IF "save" \in faults[pf.path]
  THEN /\ fs' \in {[fs EXCEPT ![pf.path] = c] : c \in {Empty, Partial}}
       /\ PfFail(ErrSave)
  ELSE /\ fs' = [fs EXCEPT ![pf.path] = content]
       /\ pc' = "pf_sum2"
       /\ ret' = ret

\* main.go:212-224: case ".jpg", ".jpeg".
PfEncodeJpeg ==
  /\ pc = "pf_encode"
  /\ IsJpegExt(pf.ext)
  /\ LET adjustedQuality == AdjustQuality(pf.jpegQuality)
     IN  /\ pf' = [pf EXCEPT !.adjustedQuality = adjustedQuality, !.encoded = TRUE]
         /\ Save(Encoded(fs0[pf.path], pf.ext, pf.processed, adjustedQuality))
         /\ stdout' = IF verbose
                      THEN Append(stdout, <<"JPEG quality adjustment", pf.jpegQuality,
                                            adjustedQuality>>)
                      ELSE stdout
  /\ UNCHANGED <<env, stack, stderr, exitCode, calls, result, readDirs>>

\* main.go:225-228: case ".png".
PfEncodePng ==
  /\ pc = "pf_encode"
  /\ pf.ext = ".png"
  /\ LET encoderLevel == PngEncoderLevel(pf.compressionLevel)
     IN  /\ pf' = [pf EXCEPT !.encoderLevel = encoderLevel, !.encoded = TRUE]
         /\ Save(Encoded(fs0[pf.path], pf.ext, pf.processed, encoderLevel))
  /\ UNCHANGED <<env, stack, stdout, stderr, exitCode, calls, result, readDirs>>

\* main.go:229-232: default, saveErr = imaging.Save(processed, path).
PfEncodeOther ==
  /\ pc = "pf_encode"
  /\ ~IsJpegExt(pf.ext)
  /\ pf.ext # ".png"
  /\ pf' = [pf EXCEPT !.encoded = TRUE]
  /\ Save(Encoded(fs0[pf.path], pf.ext, pf.processed, 0))
  /\ UNCHANGED <<env, stack, stdout, stderr, exitCode, calls, result, readDirs>>

\* main.go:239-242: newChecksum, err := calculateFileChecksum(path).
PfNewSum ==
  /\ pc = "pf_sum2"
  /\ IF "sum2" \in faults[pf.path]
     THEN /\ PfFail(ErrNewSum)
          /\ pf' = pf
     ELSE /\ pf' = [pf EXCEPT !.newChecksum = Digest(fs[pf.path])]
          /\ pc' = "pf_report"
          /\ ret' = ret
  /\ UNCHANGED <<env, fs, stack, stdout, stderr, exitCode, calls, result, readDirs>>

\* main.go:245-258: the report, then return nil.
PfReport ==
  /\ pc = "pf_report"
  /\ stdout' =
       IF verbose
       THEN stdout \o <<<<"Processed", pf.path>>,
                        <<"Original checksum", pf.originalChecksum>>,
                        <<"New checksum", pf.newChecksum>>,
                        <<"Checksum changed", pf.originalChecksum # pf.newChecksum>>>>
       ELSE Append(stdout, <<"Processed", pf.path,
                             ChangeSymbol(pf.originalChecksum, pf.newChecksum)>>)
  /\ ret' = Nil
  /\ pc' = "pf_ret"
  /\ UNCHANGED <<env, fs, stack, pf, stderr, exitCode, calls, result, readDirs>>

\* processFile returns to main (main.go:134).
PfReturnToMain ==
  /\ pc = "pf_ret"
  /\ pf.caller = "main"
  /\ result' = [result EXCEPT ![pf.path] = ret]
  /\ pf' = IdlePf
  /\ pc' = "main_ret"
  /\ UNCHANGED <<env, fs, stack, ret, stdout, stderr, exitCode, calls, readDirs>>

\* main.go:283-286: processFile returns to the loop of processDirectory; its
\* error is logged and the loop goes on with the next entry.
PfReturnToDir ==
  /\ pc = "pf_ret"
  /\ pf.caller = "dir"
  /\ result' = [result EXCEPT ![pf.path] = ret]
  /\ stderr' = IF ret # Nil
               THEN Append(stderr, <<"Error processing file", pf.path, ret>>)
               ELSE stderr
  /\ stack' = SetTop([Top EXCEPT !.idx = NextEntry(@, ret, Len(Entries(Top.path)))])
  /\ ret' = Nil
  /\ pf' = IdlePf
  /\ pc' = "pd_loop"
  /\ UNCHANGED <<env, fs, stdout, exitCode, calls>>
  /\ UNCHANGED readDirs

Next ==
  \/ MainStatFail \/ MainDir \/ MainFile \/ MainReturn
  \/ PdTooDeep \/ PdReadDirFail \/ PdReadDir \/ PdRecurse \/ PdFile \/ PdSkip \/ PdDone
  \/ PdReturnToMain \/ PdReturnToParent
  \/ PfExt \/ PfOrigSum \/ PfEstimateJpeg \/ PfEstimatePng \/ PfEstimateNone \/ PfOpen
  \/ PfCreate \/ PfEncodeJpeg \/ PfEncodePng \/ PfEncodeOther \/ PfNewSum \/ PfReport
  \/ PfReturnToMain \/ PfReturnToDir

Spec == Init /\ [][Next]_vars


\* ------------------------------------------------------------ vocabulary
Done == pc = "exit"
\* A walk ran: main called processDirectory.
Walked == argIsDir /\ ~statFails
NameOf(p) == p[Len(p)]
DirOf(p) == SubSeq(p, 1, Len(p) - 1)
\* The extensions the specification lists as supported, lower-cased.
ListedExt(p) == ToLower(Ext(NameOf(p))) \in {".jpg", ".jpeg", ".png", ".gif", ".webp"}
\* processFile was called on p and returned nil.
Completed(p) == result[p] = Nil
\* Every directory from the start directory down to d could be read.
ReadableDownTo(d) == \A k \in 0..Len(d) : SubSeq(d, 1, k) \notin unreadable
StderrLines == {stderr[i] : i \in 1..Len(stderr)}
StdoutLines == {stdout[i] : i \in 1..Len(stdout)}

\* ---------------------------------------------------------------- claims

\* C1: for every supported file on which processFile completed, the checksum
\* of its bytes after processing differs from the checksum before.
C1_ChecksumChanges ==
  \A p \in DOMAIN fs :
    (ListedExt(p) /\ Completed(p)) => Digest(fs[p]) # Digest(fs0[p])

\* C2 as stated: after a walk with maximum depth N >= 0 (the start directory
\* was read), processFile was called on every supported file whose directory
\* is 0..N levels below the start directory, and on no file N+1 or more
\* levels below it.
C2_DepthAsStated ==
  (Done /\ Walked /\ <<>> \notin unreadable /\ recursiveDepth >= 0) =>
    \A p \in DOMAIN fs :
      ListedExt(p) => (calls[p] >= 1 <=> Len(DirOf(p)) <= recursiveDepth)

\* C2 amended: after a walk with maximum depth N >= 0, processFile was called
\* on exactly the supported files whose directory is 0..N levels below the
\* start directory and could be read, as could every directory above it; no
\* directory more than N levels below the start directory is read (with
\* N = 0, none but the start directory).
C2_DepthReadable ==
  (Done /\ Walked /\ recursiveDepth >= 0) =>
    /\ \A p \in DOMAIN fs :
         ListedExt(p) =>
           (calls[p] >= 1 <=> (Len(DirOf(p)) <= recursiveDepth /\ ReadableDownTo(DirOf(p))))
    /\ \A i \in 1..Len(readDirs) : Len(readDirs[i]) <= recursiveDepth
    /\ \A d \in AllDirs :
         (Len(d) <= recursiveDepth /\ Len(d) > 0 /\ ReadableDownTo(DirOf(d)))
           => \E i \in 1..Len(readDirs) : readDirs[i] = d

\* A walk of depth 1 over a tree two levels deep: the files of the start
\* directory and of its sub-directory were processed, the one below was not.
C2_Witness ==
  /\ Done /\ Walked /\ recursiveDepth = 1 /\ unreadable = {}
  /\ calls[<<<<"a", ".jpg">>>>] = 1
  /\ calls[<<DirName, <<"e", ".JPG">>>>] = 1
  /\ \E p \in DOMAIN fs : Len(p) = 3 /\ ListedExt(p) /\ calls[p] = 0

\* C3: in a walk, a failure of processFile on an entry or of processDirectory
\* on a sub-directory is logged and does not stop the walk: every entry of a
\* directory that was read is visited, and the exit code is 0 whatever the
\* entries' errors.
C3_WalkContinues ==
  (Done /\ Walked /\ <<>> \notin unreadable) =>
    /\ exitCode = 0
    /\ \A p \in DOMAIN fs :
         (result[p] \notin {NoCall, Nil})
           => <<"Error processing file", p, result[p]>> \in StderrLines
    /\ \A i \in 1..Len(readDirs) :
         /\ (readDirs[i] \in unreadable)
              => <<"Error processing directory", readDirs[i], ErrReadDir>> \in StderrLines
         /\ (readDirs[i] \notin unreadable) =>
              \A j \in 1..Len(Entries(readDirs[i])) :
                LET e == Entries(readDirs[i])[j]
                    q == Join(readDirs[i], e.name)
                IN  IF e.isDir
                    THEN Len(readDirs[i]) < recursiveDepth
                           => \E k \in 1..Len(readDirs) : readDirs[k] = q
                    ELSE ListedExt(q) => result[q] # NoCall

\* A walk in which a file before the sub-directory failed, and the
\* sub-directory and the file after it were still processed, exit code 0.
C3_Witness ==
  /\ Done /\ Walked /\ exitCode = 0
  /\ result[<<<<"a", ".jpg">>>>] \notin {NoCall, Nil}
  /\ result[<<<<"z", ".gif">>>>] = Nil
  /\ result[<<DirName, <<"e", ".JPG">>>>] = Nil

\* C4: the command given a single file whose lower-cased extension is not
\* supported logs 'unsupported file extension', exits non-zero and leaves the
\* file's bytes as they were.
C4_UnsupportedSingle ==
  (Done /\ ~argIsDir /\ ~statFails /\ ~ListedExt(arg)) =>
    /\ exitCode = 1
    /\ stderr = <<<<"Error", ErrUnsupported>>>>
    /\ stdout = <<>>
    /\ fs = fs0

C4_Witness ==
  /\ Done /\ ~argIsDir /\ arg = <<<<"c", ".txt">>>>
  /\ exitCode = 1
  /\ stderr = <<<<"Error", ErrUnsupported>>>>
  /\ calls[arg] = 1

\* C5: whenever processFile has encoded a PNG file, the encoder used the
\* best-compression level, whatever level the estimator returned.
C5_PngBestCompression ==
  (pf.encoded /\ pf.ext = ".png") => pf.encoderLevel = BestCompression


\* C6: whenever processFile has encoded a JPEG file, the estimate is one of
\* 60, 70, 80, 90, 95, 75 and the quality used is the estimate minus 1 if the
\* estimate exceeds 90 and the estimate plus 1 otherwise, hence 1 away from
\* the estimate and within 1..100.
C6_JpegQualityAdjust ==
  (pf.encoded /\ pf.ext \in {".jpg", ".jpeg"}) =>
    /\ pf.jpegQuality \in {60, 70, 80, 90, 95, 75}
    /\ (pf.jpegQuality > 90) => (pf.adjustedQuality = pf.jpegQuality - 1)
    /\ (pf.jpegQuality <= 90) => (pf.adjustedQuality = pf.jpegQuality + 1)
    /\ pf.adjustedQuality - pf.jpegQuality \in {-1, 1}
    /\ pf.adjustedQuality \in 1..100

\* A JPEG estimated at 90, the largest estimate that is raised, was encoded.
C6_Witness ==
  /\ pf.encoded /\ pf.ext \in {".jpg", ".jpeg"}
  /\ pf.jpegQuality = 90 /\ pf.adjustedQuality = 91
  /\ fs[pf.path].codec = "jpeg" /\ fs[pf.path].param = 91

\* C7: in a walk, a file whose lower-cased extension is not supported is
\* skipped silently: processFile is never called on it, its bytes stay as
\* they were, no line of either stream names it, and the exit code is 0 as
\* without it.
C7_SkipUnsupported ==
  Walked =>
    /\ \A p \in DOMAIN fs :
         ~ListedExt(p) =>
           /\ calls[p] = 0
           /\ result[p] = NoCall
           /\ fs[p] = fs0[p]
           /\ \A l \in StderrLines \cup StdoutLines :
                l[1] \in {"Processed", "Error processing file", "Error processing directory"}
                  => l[2] # p
           /\ pf.path # p
    /\ (Done /\ <<>> \notin unreadable) => exitCode = 0

\* The walk of depth 0 over a.jpg, b.png and c.txt processed a.jpg and b.png,
\* left c.txt alone and exited 0 with nothing logged.
C7_Witness ==
  /\ Done /\ Walked /\ recursiveDepth = 0 /\ exitCode = 0
  /\ result[<<<<"a", ".jpg">>>>] = Nil
  /\ result[<<<<"b", ".png">>>>] = Nil
  /\ calls[<<<<"c", ".txt">>>>] = 0
  /\ fs[<<<<"c", ".txt">>>>] = fs0[<<<<"c", ".txt">>>>]
  /\ stderr = <<>>

\* The lines of stdout that report the file p.
ReportsOf(p) == {i \in 1..Len(stdout) : stdout[i][1] = "Processed" /\ stdout[i][2] = p}

\* C8: without -v, each file processFile completed on has exactly one report
\* line, the path followed by the check mark if the checksum after differs
\* from the checksum before and by the cross mark if not; stdout holds
\* nothing else.
C8_ReportLine ==
  (~verbose) =>
    /\ \A p \in DOMAIN fs :
         Completed(p) =>
           /\ Cardinality(ReportsOf(p)) = 1
           /\ \A i \in ReportsOf(p) :
                /\ Len(stdout[i]) = 3
                /\ stdout[i][3] \in {Check, Cross}
                /\ stdout[i][3] = Check <=> Digest(fs[p]) # Digest(fs0[p])
    /\ Len(stdout) = Cardinality({p \in DOMAIN fs : Completed(p)})
                       + (IF pc = "pf_ret" /\ ret = Nil THEN 1 ELSE 0)

\* A walk without -v that printed a check mark for one file and a cross mark
\* for another.
C8_Witness ==
  /\ Done /\ ~verbose
  /\ \E p, q \in DOMAIN fs :
       /\ Completed(p) /\ <<"Processed", p, Check>> \in StdoutLines
       /\ Completed(q) /\ <<"Processed", q, Cross>> \in StdoutLines


\* C9: processing is sequential and without retry: processFile is called at
\* most once on a file, and once the walk is over exactly once on every
\* supported file of every directory that was read, whether the call failed
\* or not; while processFile works on a file, every file it was called on
\* before has returned, and no other file has been touched out of its turn.
C9_OnceInTurn ==
  /\ \A p \in DOMAIN fs : calls[p] <= 1
  /\ \A p \in DOMAIN fs : (result[p] # NoCall) => calls[p] = 1
  /\ \A p \in DOMAIN fs :
       (calls[p] = 1 /\ result[p] = NoCall) => (pf.path = p /\ pf.caller # "none")
  /\ \A p \in DOMAIN fs : (calls[p] = 0) => fs[p] = fs0[p]
  /\ (Done /\ Walked) =>
       \A i \in 1..Len(readDirs) :
         (readDirs[i] \notin unreadable) =>
           \A j \in 1..Len(Entries(readDirs[i])) :
             LET e == Entries(readDirs[i])[j]
             IN  (~e.isDir /\ ListedExt(Join(readDirs[i], e.name)))
                   => calls[Join(readDirs[i], e.name)] = 1
  /\ \A i, j \in 1..Len(readDirs) : readDirs[i] = readDirs[j] => i = j

\* A walk is over in which processFile failed on one file, was called once
\* on it and once on the files after it.
C9_Witness ==
  /\ Done /\ Walked
  /\ \E p \in DOMAIN fs : calls[p] = 1 /\ result[p] \notin {NoCall, Nil}
  /\ \E q \in DOMAIN fs : calls[q] = 1 /\ result[q] = Nil
  /\ calls[<<<<"z", ".gif">>>>] = 1

\* The estimate the table gives for the bytes-per-pixel ratio size / px.
TableEstimate(size, px, q) ==
  /\ (2 * size < px) => q = 60
  /\ (2 * size >= px /\ 4 * size < 3 * px) => q = 70
  /\ (4 * size >= 3 * px /\ size < px) => q = 80
  /\ (size >= px /\ 2 * size < 3 * px) => q = 90
  /\ (2 * size >= 3 * px) => q = 95

\* C10, the value: once processFile has estimated a JPEG file, the estimate is
\* one of 60, 70, 80, 90, 95, 75: 75 after an open or stat failure, a decode
\* failure or another format than JPEG, the table's value otherwise.
C10_EstimateValue ==
  (pf.estimated = "jpeg") =>
    LET c == fs0[pf.path]
        failed == \/ "est_open" \in faults[pf.path]
                  \/ "est_stat" \in faults[pf.path]
                  \/ c.codec # "jpeg"
    IN  /\ pf.jpegQuality \in {60, 70, 80, 90, 95, 75}
        /\ failed => pf.jpegQuality = 75
        /\ ~failed => TableEstimate(c.size, c.px, pf.jpegQuality)

\* C10: the estimate has the value above and is never an error: the step
\* that estimates always hands over to the decoding of the image, with no
\* error set.
C10_JpegEstimate ==
  /\ []C10_EstimateValue
  /\ [][(pc = "pf_est") => (pc' = "pf_open" /\ ret' = Nil)]_vars

\* A JPEG whose estimate failed at os.Open and fell back to 75 was encoded at
\* quality 76 all the same.
C10_Witness ==
  /\ pc = "pf_sum2"
  /\ pf.estimated = "jpeg" /\ "est_open" \in faults[pf.path]
  /\ pf.jpegQuality = 75
  /\ fs[pf.path].codec = "jpeg" /\ fs[pf.path].param = 76


\* The errors processFile returns before it calls os.Create.
EarlyErrors == {ErrUnsupported, ErrOrigSum, ErrDecode}

\* C11: processFile truncates or writes the file only after the extension
\* check, the original checksum and the decoding have succeeded: whenever it
\* returns an unsupported-extension, original-checksum or decode error, the
\* file's bytes are what they were before the call and no report line names
\* the file; a file whose bytes differ was accepted, summed and decoded.
C11_NoWriteBeforeDecode ==
  /\ \A p \in DOMAIN fs :
       (result[p] \in EarlyErrors) => (fs[p] = fs0[p] /\ ReportsOf(p) = {})
  /\ (pc = "pf_ret" /\ ret \in EarlyErrors)
       => (fs[pf.path] = fs0[pf.path] /\ ReportsOf(pf.path) = {})
  /\ \A p \in DOMAIN fs :
       (fs[p] # fs0[p]) =>
         /\ ListedExt(p)
         /\ Decodable(fs0[p].codec)
         /\ "sum1" \notin faults[p] /\ "open" \notin faults[p]
         /\ \/ result[p] \in {Nil, ErrSave, ErrNewSum}
            \/ /\ pf.path = p
               /\ pf.originalChecksum = Digest(fs0[p])
               /\ pf.src = fs0[p].pix
               /\ pc \in {"pf_encode", "pf_sum2", "pf_report", "pf_ret"}

\* A walk is over in which a corrupt image made processFile return the decode
\* error: its bytes are as before, nothing reports it, and a file after it
\* was rewritten.
C11_Witness ==
  /\ Done /\ Walked
  /\ \E p \in DOMAIN fs :
       /\ result[p] = ErrDecode /\ fs0[p] = Junk
       /\ fs[p] = fs0[p] /\ ReportsOf(p) = {}
  /\ \E q \in DOMAIN fs : result[q] = Nil /\ fs[q] # fs0[q]

====
